---- MODULE Spec2Model ----
(***************************************************************************)
(* Model of the OpenCode provider plugin (src/unnamed/part_001, v1.1.0;    *)
(* src/index.ts is the v1.0.0 of the same file).                           *)
(*                                                                         *)
(* The state is the module-level SDK cache, the fields of every            *)
(* OpencodeClient (client, sessionId), and the position of every call of   *)
(* query / healthCheck / validateCredentials in its async body.  Each      *)
(* action runs the code between two awaits (or yields) of one call.        *)
(***************************************************************************)
EXTENDS Integers, Sequences, FiniteSets, TLC

\* ------------------------------------------------------------------ bounds
MaxCalls == 2
MaxParts == 3
MaxTools == 2

Calls   == 1..MaxCalls
Handles == {1, 2}

\* ------------------------------------------------------------ error texts
SdkMissingMsg == "OpenCode SDK not installed. Run: npm install @opencode-ai/sdk"
SessionFailMsg == "Failed to create OpenCode session"
ConnectorMsg == "invalid connector config"
RemoteMsg == "ECONNREFUSED"

QueryFailed(m) == "OpenCode query failed: " \o m

\* ---------------------------------------------------------------- events
InitEvent(sid) ==
  [type |-> "system", subtype |-> "init", session_id |-> sid,
   content |-> <<>>, total_cost_usd |-> -1]

TextEvent(part) ==
  [type |-> "assistant", subtype |-> "", session_id |-> 0,
   content |-> << [type |-> "text", text |-> part.text, name |-> ""] >>,
   total_cost_usd |-> -1]

ToolUseEvent(part) ==
  [type |-> "assistant", subtype |-> "", session_id |-> 0,
   content |-> << [type |-> "tool_use", text |-> "", name |-> part.name] >>,
   total_cost_usd |-> -1]

ResultEvent ==
  [type |-> "result", subtype |-> "success", session_id |-> 0,
   content |-> <<>>, total_cost_usd |-> 0]

\* ------------------------------------------------- response translation
\* Variant: the tool_call spelling is not recognized.
RECURSIVE PartEvents_NoToolCall(_)
PartEvents_NoToolCall(parts) ==
  IF parts = <<>> THEN <<>>
  ELSE LET part == Head(parts)
           ev == IF part.type = "text" THEN << TextEvent(part) >>
                 ELSE IF part.type = "tool_use" THEN << ToolUseEvent(part) >>
                      ELSE <<>>
       IN ev \o PartEvents_NoToolCall(Tail(parts))

\* The for-loop over result.data.parts: one assistant event per text part
\* and per tool_use / tool_call part, nothing for any other part type.
RECURSIVE PartEvents(_)
PartEvents(parts) ==
  IF parts = <<>> THEN <<>>
  ELSE LET part == Head(parts)
           ev == IF part.type = "text" THEN << TextEvent(part) >>
                 ELSE IF part.type = "tool_use" \/ part.type = "tool_call"
                      THEN << ToolUseEvent(part) >>
                      ELSE <<>>
       IN ev \o PartEvents(Tail(parts))

\* What the generator yields after the prompt call returned `resp`:
\* nothing when result.data is falsy; otherwise the parts' events (parts
\* defaulting to []) followed by the result event.
ResponseEvents(resp) ==
  IF resp.hasData
  THEN PartEvents(IF resp.hasParts THEN resp.parts ELSE <<>>) \o << ResultEvent >>
  ELSE <<>>

\* ------------------------------------------------------ tool enablement
ToolId(serverName, toolName) == "mcp__" \o serverName \o "__" \o toolName

RECURSIVE ServerTools(_, _)
ServerTools(serverName, tools) ==
  IF tools = <<>> THEN <<>>
  ELSE << ToolId(serverName, Head(tools)) >> \o ServerTools(serverName, Tail(tools))

\* Variant: the identifier is built from config.name, not from the map key.
RECURSIVE AllTools_ByConfigName(_)
AllTools_ByConfigName(entries) ==
  IF entries = <<>> THEN <<>>
  ELSE ServerTools(Head(entries).name, Head(entries).tools)
         \o AllTools_ByConfigName(Tail(entries))

\* The nested for-loops over Object.entries(opts.a2aServers): `entries` is
\* the map in entry order, each entry [key, name, tools]; the identifier is
\* built from the map key.
RECURSIVE AllTools(_)
AllTools(entries) ==
  IF entries = <<>> THEN <<>>
  ELSE ServerTools(Head(entries).key, Head(entries).tools) \o AllTools(Tail(entries))

\* promptOptions.enabledTools after both if-blocks: `has` tells whether the
\* field is set on the prompt body at all.
EnabledTools(opts) ==
  LET a2a == IF opts.hasServers /\ Len(opts.servers) > 0
             THEN [has |-> TRUE, list |-> AllTools(opts.servers)]
             ELSE [has |-> FALSE, list |-> <<>>]
  IN IF opts.hasAllowed /\ Len(opts.allowedTools) > 0
     THEN [has |-> TRUE, list |-> a2a.list \o opts.allowedTools]
     ELSE a2a

\* health.data?.healthy === true
HealthyFlag(health) == health.hasData /\ health.healthy = "true"

\* Variant: both catch blocks report failure.
CatchHealth_Strict(kind) == FALSE

\* What the catch block of the health probe returns: validateCredentials
\* allows anyway, healthCheck reports unreachable.
CatchHealth(kind) == kind = "validate"

\* ------------------------------------------------------------- inputs
SeqsUpTo(S, n) == UNION { [1..k -> S] : k \in 0..n }

TextPart(t) == [type |-> "text", text |-> t, name |-> ""]
ToolPart(ty, n) == [type |-> ty, text |-> "", name |-> n]
PartAlphabet ==
  { TextPart("hi"), TextPart("yo"), ToolPart("tool_use", "add"),
    ToolPart("tool_call", "add"), ToolPart("image", "") }

NoResp == [kind |-> "none", hasData |-> FALSE, hasParts |-> FALSE, parts |-> <<>>]
DataResp(ps) == [kind |-> "ok", hasData |-> TRUE, hasParts |-> TRUE, parts |-> ps]
NoPartsResp == [kind |-> "ok", hasData |-> TRUE, hasParts |-> FALSE, parts |-> <<>>]
NoDataResp == [kind |-> "ok", hasData |-> FALSE, hasParts |-> FALSE, parts |-> <<>>]

RespSmall == { NoDataResp, DataResp(<< TextPart("hi"), ToolPart("tool_call", "add") >>) }
RespRich ==
  { NoDataResp, NoPartsResp } \cup { DataResp(ps) : ps \in SeqsUpTo(PartAlphabet, MaxParts) }

ServerKeys == {"calc", "fs"}
ToolNames == {"add", "read"}
AllowedNames == {"web_search", "mcp__calc__add"}

\* config.name is not the map key.
Server(k, ts) == [key |-> k, name |-> "srv", tools |-> ts]
ServerMaps ==
  { <<>> }
  \cup { << Server(k, ts) >> : k \in ServerKeys, ts \in SeqsUpTo(ToolNames, MaxTools) }
  \cup { << Server(p[1], t1), Server(p[2], t2) >> :
           p \in { q \in ServerKeys \X ServerKeys : q[1] # q[2] },
           t1 \in SeqsUpTo(ToolNames, MaxTools), t2 \in SeqsUpTo(ToolNames, MaxTools) }

Opts(hs, ss, ha, as) ==
  [hasServers |-> hs, servers |-> ss, hasAllowed |-> ha, allowedTools |-> as]
NoOpts == Opts(FALSE, <<>>, FALSE, <<>>)
OptsSmall == { Opts(TRUE, << Server("calc", << "add" >>) >>, TRUE, << "web_search" >>) }
OptsRich ==
  { Opts(TRUE, ss, TRUE, as) :
      ss \in ServerMaps, as \in SeqsUpTo(AllowedNames, MaxTools) }
  \cup { Opts(FALSE, <<>>, TRUE, as) : as \in SeqsUpTo(AllowedNames, MaxTools) }
  \cup { Opts(TRUE, ss, FALSE, <<>>) : ss \in ServerMaps }
  \cup { NoOpts }

HealthResps ==
  { [hasData |-> FALSE, healthy |-> "missing"],
    [hasData |-> TRUE, healthy |-> "true"],
    [hasData |-> TRUE, healthy |-> "false"],
    [hasData |-> TRUE, healthy |-> "missing"] }
HealthSmall == { h \in HealthResps : h.hasData /\ h.healthy # "missing" }

\* --------------------------------------------------------------- state
VARIABLES
  sdkInstalled,   \* environment: whether import("@opencode-ai/sdk") resolves
  OpencodeSDK,    \* module-level cache: TRUE once assigned
  importCount,    \* number of import() expressions executed so far
  client,         \* client[h]: this.client is set
  sessionId,      \* sessionId[h]: this.sessionId, 0 for null / undefined
  remoteSessions, \* sessions created on the server so far (ids are 1, 2, ...)
  calls           \* calls[c]: one call of query / healthCheck / validateCredentials

vars == << sdkInstalled, OpencodeSDK, importCount, client, sessionId,
           remoteSessions, calls >>

NoCall ==
  [kind |-> "none", h |-> 0, pc |-> "idle", opts |-> NoOpts, overlap |-> FALSE,
   inTry |-> FALSE, created |-> FALSE, createRes |-> "", gotSid |-> 0, promptSid |-> 0,
   body |-> [has |-> FALSE, list |-> <<>>], resp |-> NoResp,
   prompted |-> FALSE, health |-> [hasData |-> FALSE, healthy |-> "missing"],
   events |-> <<>>, cause |-> "", err |-> "", ret |-> FALSE]

Init ==
  /\ sdkInstalled \in BOOLEAN
  /\ OpencodeSDK = FALSE
  /\ importCount = 0
  /\ client = [h \in Handles |-> FALSE]
  /\ sessionId = [h \in Handles |-> 0]
  /\ remoteSessions = 0
  /\ calls = [c \in Calls |-> NoCall]

\* -------------------------------------------------------------- helpers
\* A query generator on handle h that has been started and has not finished.
InFlightQuery(h) ==
  \E d \in Calls : calls[d].kind = "query" /\ calls[d].h = h /\ calls[d].pc # "done"

\* Call slots are used in index order, so a higher index is a later call.
CanStart(c) ==
  /\ calls[c].kind = "none"
  /\ IF c = 1 THEN TRUE ELSE calls[c - 1].kind # "none"

\* Handles are taken into use in index order (they are interchangeable).
CanUse(h) == \A g \in Handles : g < h => \E d \in Calls : calls[d].h = g

\* loadOpencodeSDK up to its await: the cached module is returned, or
\* import() is executed.
LoaderPc == IF OpencodeSDK THEN "haveSDK" ELSE "importing"
LoaderImports == IF OpencodeSDK THEN importCount ELSE importCount + 1

\* getClient up to its await: the memoized connector, or the loader.
GetClientPc(h) == IF client[h] THEN "haveClient" ELSE LoaderPc
GetClientImports(h) == IF client[h] THEN importCount ELSE LoaderImports

\* `await this.getClient()` stands before the try block of query: what it
\* throws reaches the caller as it is.
QueryStep1Error(msg) == msg

\* Variant: the catch block rethrows the error as it is.
QueryCatch_Rethrow(msg) == msg

\* The catch block of query.
QueryCatch(msg) == QueryFailed(msg)

\* A throw out of the loader or the connector constructor, by kind of call.
FailBeforeTry(call, msg) ==
  IF call.kind = "query"
  THEN [call EXCEPT !.pc = "done", !.cause = msg, !.err = QueryStep1Error(msg)]
  ELSE [call EXCEPT !.pc = "done", !.cause = msg, !.ret = CatchHealth(call.kind)]

\* A throw inside the try block of query.
FailInTry(call, msg) ==
  [call EXCEPT !.pc = "done", !.cause = msg, !.err = QueryCatch(msg)]

\* -------------------------------------------------------------- actions
\* The options are drawn from `os`.  `serial`: the host starts a query only
\* after the handle's previous query has finished.
StartQuery(c, h, os, serial) ==
  /\ CanStart(c)
  /\ CanUse(h)
  /\ serial => ~InFlightQuery(h)
  /\ \E o \in os :
       calls' = [calls EXCEPT ![c] =
         [NoCall EXCEPT !.kind = "query", !.h = h, !.opts = o,
                        !.overlap = InFlightQuery(h), !.pc = GetClientPc(h)]]
  /\ importCount' = GetClientImports(h)
  /\ UNCHANGED << sdkInstalled, OpencodeSDK, client, sessionId, remoteSessions >>

StartHealthCheck(c, h) ==
  /\ CanStart(c)
  /\ CanUse(h)
  /\ calls' = [calls EXCEPT ![c] =
       [NoCall EXCEPT !.kind = "health", !.h = h, !.pc = GetClientPc(h)]]
  /\ importCount' = GetClientImports(h)
  /\ UNCHANGED << sdkInstalled, OpencodeSDK, client, sessionId, remoteSessions >>

StartValidate(c) ==
  /\ CanStart(c)
  /\ calls' = [calls EXCEPT ![c] = [NoCall EXCEPT !.kind = "validate", !.pc = LoaderPc]]
  /\ importCount' = LoaderImports
  /\ UNCHANGED << sdkInstalled, OpencodeSDK, client, sessionId, remoteSessions >>

ImportResolve(c) ==
  /\ calls[c].pc = "importing"
  /\ sdkInstalled
  /\ OpencodeSDK' = TRUE
  /\ calls' = [calls EXCEPT ![c].pc = "haveSDK"]
  /\ UNCHANGED << sdkInstalled, importCount, client, sessionId, remoteSessions >>

ImportReject(c) ==
  /\ calls[c].pc = "importing"
  /\ ~sdkInstalled
  /\ calls' = [calls EXCEPT ![c] = FailBeforeTry(calls[c], SdkMissingMsg)]
  /\ UNCHANGED << sdkInstalled, OpencodeSDK, importCount, client, sessionId,
                  remoteSessions >>

Construct(c) ==
  /\ calls[c].pc = "haveSDK"
  /\ client' = IF calls[c].kind = "validate" THEN client
               ELSE [client EXCEPT ![calls[c].h] = TRUE]
  /\ calls' = [calls EXCEPT ![c].pc = "haveClient"]
  /\ UNCHANGED << sdkInstalled, OpencodeSDK, importCount, sessionId, remoteSessions >>

ConstructThrows(c) ==
  /\ calls[c].pc = "haveSDK"
  /\ calls' = [calls EXCEPT ![c] = FailBeforeTry(calls[c], ConnectorMsg)]
  /\ UNCHANGED << sdkInstalled, OpencodeSDK, importCount, client, sessionId,
                  remoteSessions >>

HealthCall(c) ==
  /\ calls[c].pc = "haveClient"
  /\ calls[c].kind \in {"health", "validate"}
  /\ calls' = [calls EXCEPT ![c].pc = "health"]
  /\ UNCHANGED << sdkInstalled, OpencodeSDK, importCount, client, sessionId,
                  remoteSessions >>

HealthReturns(c, r) ==
  /\ calls[c].pc = "health"
  /\ calls' = [calls EXCEPT ![c] =
       [calls[c] EXCEPT !.pc = "done", !.health = r, !.ret = HealthyFlag(r)]]
  /\ UNCHANGED << sdkInstalled, OpencodeSDK, importCount, client, sessionId,
                  remoteSessions >>

HealthThrows(c) ==
  /\ calls[c].pc = "health"
  /\ calls' = [calls EXCEPT ![c] =
       [calls[c] EXCEPT !.pc = "done", !.cause = RemoteMsg,
                        !.ret = CatchHealth(calls[c].kind)]]
  /\ UNCHANGED << sdkInstalled, OpencodeSDK, importCount, client, sessionId,
                  remoteSessions >>

\* Variant: the session check is missing.
SessionStep_AlwaysCreate(c) ==
  /\ calls[c].pc = "haveClient"
  /\ calls[c].kind = "query"
  /\ calls' = [calls EXCEPT ![c] =
       [calls[c] EXCEPT !.pc = "creating", !.inTry = TRUE, !.created = TRUE]]
  /\ UNCHANGED << sdkInstalled, OpencodeSDK, importCount, client, sessionId,
                  remoteSessions >>

\* The session check after the connector is there: session.create is
\* called, or the recorded id is yielded in system/init.
SessionStep(c) ==
  /\ calls[c].pc = "haveClient"
  /\ calls[c].kind = "query"
  /\ calls' = [calls EXCEPT ![c] =
       IF sessionId[calls[c].h] = 0
       THEN [calls[c] EXCEPT !.pc = "creating", !.inTry = TRUE, !.created = TRUE]
       ELSE [calls[c] EXCEPT !.pc = "init", !.inTry = TRUE,
                             !.events = << InitEvent(sessionId[calls[c].h]) >>]]
  /\ UNCHANGED << sdkInstalled, OpencodeSDK, importCount, client, sessionId,
                  remoteSessions >>

\* Variant: the check for a missing id is absent.
CreateReturns_NoIdCheck(c, hasId) ==
  /\ calls[c].pc = "creating"
  /\ LET id == IF hasId THEN remoteSessions + 1 ELSE 0
     IN /\ remoteSessions' = IF hasId THEN remoteSessions + 1 ELSE remoteSessions
        /\ sessionId' = [sessionId EXCEPT ![calls[c].h] = id]
        /\ calls' = [calls EXCEPT ![c] =
             [calls[c] EXCEPT !.pc = "init", !.gotSid = id,
                              !.createRes = IF hasId THEN "id" ELSE "noid",
                              !.events = << InitEvent(id) >>]]
  /\ UNCHANGED << sdkInstalled, OpencodeSDK, importCount, client >>

\* session.create resolved, with an id or without one.
CreateReturns(c, hasId) ==
  /\ calls[c].pc = "creating"
  /\ LET id == IF hasId THEN remoteSessions + 1 ELSE 0
     IN /\ remoteSessions' = IF hasId THEN remoteSessions + 1 ELSE remoteSessions
        /\ sessionId' = [sessionId EXCEPT ![calls[c].h] = id]
        /\ calls' = [calls EXCEPT ![c] =
             IF id = 0
             THEN FailInTry([calls[c] EXCEPT !.createRes = "noid"], SessionFailMsg)
             ELSE [calls[c] EXCEPT !.pc = "init", !.createRes = "id", !.gotSid = id,
                                   !.events = << InitEvent(id) >>]]
  /\ UNCHANGED << sdkInstalled, OpencodeSDK, importCount, client >>

CreateThrows(c) ==
  /\ calls[c].pc = "creating"
  /\ calls' = [calls EXCEPT ![c] =
       FailInTry([calls[c] EXCEPT !.createRes = "threw"], RemoteMsg)]
  /\ UNCHANGED << sdkInstalled, OpencodeSDK, importCount, client, sessionId,
                  remoteSessions >>

\* The consumer asks for the next event: the prompt options are built and
\* session.prompt is called with the id this.sessionId holds now.
PromptCall(c) ==
  /\ calls[c].pc = "init"
  /\ calls' = [calls EXCEPT ![c] =
       [calls[c] EXCEPT !.pc = "prompting", !.prompted = TRUE,
                        !.promptSid = sessionId[calls[c].h],
                        !.body = EnabledTools(calls[c].opts)]]
  /\ UNCHANGED << sdkInstalled, OpencodeSDK, importCount, client, sessionId,
                  remoteSessions >>

PromptReturns(c, r) ==
  /\ calls[c].pc = "prompting"
  /\ calls' = [calls EXCEPT ![c] =
       [calls[c] EXCEPT !.pc = "done", !.resp = r,
                        !.events = calls[c].events \o ResponseEvents(r)]]
  /\ UNCHANGED << sdkInstalled, OpencodeSDK, importCount, client, sessionId,
                  remoteSessions >>

\* Variant: the result event is yielded before the failure is thrown.
PromptThrows_YieldsResult(c) ==
  /\ calls[c].pc = "prompting"
  /\ calls' = [calls EXCEPT ![c] =
       FailInTry([calls[c] EXCEPT !.events = calls[c].events \o << ResultEvent >>],
                 RemoteMsg)]
  /\ UNCHANGED << sdkInstalled, OpencodeSDK, importCount, client, sessionId,
                  remoteSessions >>

\* Variant: a failed prompt drops the recorded session.
PromptThrows_ClearsSession(c) ==
  /\ calls[c].pc = "prompting"
  /\ calls' = [calls EXCEPT ![c] = FailInTry(calls[c], RemoteMsg)]
  /\ sessionId' = [sessionId EXCEPT ![calls[c].h] = 0]
  /\ UNCHANGED << sdkInstalled, OpencodeSDK, importCount, client, remoteSessions >>

PromptThrows(c) ==
  /\ calls[c].pc = "prompting"
  /\ calls' = [calls EXCEPT ![c] = FailInTry(calls[c], RemoteMsg)]
  /\ UNCHANGED << sdkInstalled, OpencodeSDK, importCount, client, sessionId,
                  remoteSessions >>

\* ------------------------------------------------------- specifications
\* One step of call c; `in` names the inputs the environment draws from.
Step(c, in) ==
  \/ \E h \in Handles : StartQuery(c, h, in.opts, in.serial)
  \/ \E h \in Handles : StartHealthCheck(c, h)
  \/ StartValidate(c)
  \/ ImportResolve(c)
  \/ ImportReject(c)
  \/ Construct(c)
  \/ ConstructThrows(c)
  \/ HealthCall(c)
  \/ \E r \in in.healths : HealthReturns(c, r)
  \/ HealthThrows(c)
  \/ SessionStep(c)
  \/ \E hasId \in BOOLEAN : CreateReturns(c, hasId)
  \/ CreateThrows(c)
  \/ PromptCall(c)
  \/ \E r \in in.resps : PromptReturns(c, r)
  \/ PromptThrows(c)

Inputs(os, rs, hs, ser) == [opts |-> os, resps |-> rs, healths |-> hs, serial |-> ser]

\* Any interleaving of calls on any handles.
Next == \E c \in Calls : Step(c, Inputs(OptsSmall, RespSmall, HealthSmall, FALSE))
Spec == Init /\ [][Next]_vars

\* The host issues the queries of one handle one after another.
NextSeq == \E c \in Calls : Step(c, Inputs(OptsSmall, RespSmall, HealthSmall, TRUE))
SpecSeq == Init /\ [][NextSeq]_vars

\* One call, every shape of prompt response and of health response.
NextCall == Step(1, Inputs(OptsSmall, RespRich, HealthResps, FALSE))
SpecCall == Init /\ [][NextCall]_vars

\* One call, every shape of tool options.
NextTools == Step(1, Inputs(OptsRich, RespSmall, HealthSmall, FALSE))
SpecTools == Init /\ [][NextTools]_vars

\* ----------------------------------------------------------- properties
IsQuery(c) == calls[c].kind = "query"
Finished(c) == calls[c].pc = "done"
Threw(c) == calls[c].err # ""
HasResult(evs) == \E i \in 1..Len(evs) : evs[i].type = "result"
IsResult(e) == e.type = "result" /\ e.subtype = "success" /\ e.total_cost_usd = 0
IsInit(e, sid) == e.type = "system" /\ e.subtype = "init" /\ e.session_id = sid

\* C1: when the queries of a handle are issued one after another, a query
\* that comes after one that recorded a session id never calls
\* session-create, and the prompt call it issues carries that id; a failed
\* query in between changes nothing of this.
C1_SessionReuse ==
  \A a, b \in Calls :
    (a < b /\ IsQuery(a) /\ IsQuery(b) /\ calls[a].h = calls[b].h
       /\ calls[a].gotSid # 0)
    => /\ ~calls[b].created
       /\ calls[b].prompted => calls[b].promptSid = calls[a].gotSid

\* A query created the session and then failed in the prompt call; the next
\* query of the handle has prompted with that id without creating.
C1_Witness ==
  \E a, b \in Calls :
    /\ a < b /\ IsQuery(a) /\ IsQuery(b) /\ calls[a].h = calls[b].h
    /\ calls[a].gotSid # 0 /\ calls[a].err = QueryFailed(RemoteMsg)
    /\ calls[b].prompted /\ ~calls[b].created
    /\ calls[b].promptSid = calls[a].gotSid

\* C2 as stated: a query that throws has yielded no event before the error.
C2_NoEventBeforeError ==
  \A c \in Calls : (IsQuery(c) /\ Threw(c)) => calls[c].events = <<>>

\* C2 amended: a query that throws has finished and has never yielded the
\* result event; it has yielded no event at all when it failed before the
\* prompt call, and the system/init event first when it failed after the
\* prompt call was issued.
C2_NoResultBeforeError ==
  \A c \in Calls :
    (IsQuery(c) /\ Threw(c))
    => /\ Finished(c)
       /\ ~HasResult(calls[c].events)
       /\ ~calls[c].prompted => calls[c].events = <<>>
       /\ calls[c].prompted =>
            /\ Len(calls[c].events) >= 1
            /\ calls[c].events[1].type = "system"
            /\ calls[c].events[1].subtype = "init"

\* The prompt call threw after system/init had been yielded.
C2_Witness ==
  \E c \in Calls :
    /\ IsQuery(c) /\ Finished(c) /\ calls[c].prompted
    /\ calls[c].err = QueryFailed(RemoteMsg)
    /\ Len(calls[c].events) = 1 /\ calls[c].events[1].type = "system"

\* C3: a query that completes without throwing has yielded exactly one
\* result event (success, cost 0), as its last event.
C3_ResultTerminal ==
  \A c \in Calls :
    (IsQuery(c) /\ Finished(c) /\ ~Threw(c))
    => /\ calls[c].events # <<>>
       /\ IsResult(calls[c].events[Len(calls[c].events)])
       /\ Cardinality({ i \in 1..Len(calls[c].events) :
                          calls[c].events[i].type = "result" }) = 1

\* C4: when session.create answers without an id, the query has failed with
\* the session-creation error (as the catch block hands it on), has issued
\* no prompt call and has yielded nothing.
C4_NoIdFailsBeforePrompt ==
  \A c \in Calls :
    calls[c].createRes = "noid"
    => /\ Finished(c)
       /\ calls[c].err = "OpenCode query failed: Failed to create OpenCode session"
       /\ ~calls[c].prompted
       /\ calls[c].promptSid = 0
       /\ calls[c].events = <<>>

\* session.create answered without an id and the query has ended.
C4_Witness ==
  \E c \in Calls :
    /\ IsQuery(c) /\ calls[c].created /\ calls[c].createRes = "noid"
    /\ Threw(c) /\ sessionId[calls[c].h] = 0

\* C5 as stated: every failure of a query reaches the caller as QueryFailed
\* with the original message embedded.
C5_AlwaysQueryFailed ==
  \A c \in Calls :
    (IsQuery(c) /\ calls[c].cause # "")
    => calls[c].err = "OpenCode query failed: " \o calls[c].cause

\* C5 amended: a failure inside the try block (session creation to the
\* last event) reaches the caller as QueryFailed with the original message
\* embedded; a failure while the connector is obtained (SDK load, connector
\* construction) reaches the caller as it was thrown.
C5_QueryFailedInsideTry ==
  \A c \in Calls :
    (IsQuery(c) /\ calls[c].cause # "")
    => /\ Finished(c)
       /\ calls[c].inTry => calls[c].err = "OpenCode query failed: " \o calls[c].cause
       /\ ~calls[c].inTry => calls[c].err = calls[c].cause

\* session.create threw and the caller got the wrapped error.
C5_Witness ==
  \E c \in Calls :
    /\ IsQuery(c) /\ calls[c].createRes = "threw" /\ calls[c].cause = RemoteMsg
    /\ calls[c].err = "OpenCode query failed: ECONNREFUSED"

\* C6: import() is executed at most once in the life of the process.
C6_ImportOnce == importCount <= 1

\* C7: validateCredentials and healthCheck never throw; when the load, the
\* connector or the health call threw, the first gives true and the second
\* false; otherwise both give true exactly when the health flag is true.
C7_HealthAsymmetry ==
  \A c \in Calls :
    (calls[c].kind \in {"validate", "health"} /\ Finished(c))
    => /\ ~Threw(c)
       /\ calls[c].cause # "" => (calls[c].ret <=> calls[c].kind = "validate")
       /\ calls[c].cause = "" =>
            (calls[c].ret <=> (calls[c].health.hasData
                                 /\ calls[c].health.healthy = "true"))

\* validateCredentials has returned true after a throw.
C7_Witness ==
  \E c \in Calls :
    /\ calls[c].kind = "validate" /\ Finished(c)
    /\ calls[c].cause = RemoteMsg /\ calls[c].ret

\* C8 as stated: sessionId, once set, never takes a different value.
C8_SessionImmutable ==
  [][\A h \in Handles : sessionId[h] # 0 => sessionId'[h] = sessionId[h]]_vars

\* C8 amended: sessionId, once set, takes a different value only on a
\* handle on which a query was started while another query was in flight.
C8_ImmutableUnlessOverlap ==
  [][\A h \in Handles :
       (sessionId[h] # 0 /\ sessionId'[h] # sessionId[h])
       => \E c \in Calls : IsQuery(c) /\ calls[c].h = h /\ calls[c].overlap]_vars

\* Two queries of one handle that did not overlap have both finished and
\* the handle still holds the id the first one recorded.
C8_Witness ==
  \E a, b \in Calls :
    /\ a < b /\ IsQuery(a) /\ IsQuery(b) /\ calls[a].h = calls[b].h
    /\ ~calls[a].overlap /\ ~calls[b].overlap
    /\ Finished(a) /\ Finished(b) /\ calls[b].inTry
    /\ calls[a].gotSid # 0 /\ sessionId[calls[a].h] = calls[a].gotSid

\* C9: for a response with a list of parts, the events are system/init,
\* then one assistant event per text / tool_use / tool_call part in the
\* order of the parts (one text item, or one tool-use item with the part's
\* name), then one result event (success, cost 0); other parts give nothing.
Recognized(parts) ==
  SelectSeq(parts, LAMBDA p : p.type \in {"text", "tool_use", "tool_call"})

AssistantOf(e, p) ==
  /\ e.type = "assistant"
  /\ Len(e.content) = 1
  /\ IF p.type = "text"
     THEN e.content[1].type = "text" /\ e.content[1].text = p.text
     ELSE e.content[1].type = "tool_use" /\ e.content[1].name = p.name

C9_PartsToEvents ==
  \A c \in Calls :
    (IsQuery(c) /\ Finished(c) /\ calls[c].resp.kind = "ok"
       /\ calls[c].resp.hasData /\ calls[c].resp.hasParts)
    => LET evs == calls[c].events
           rec == Recognized(calls[c].resp.parts)
       IN /\ ~Threw(c)
          /\ Len(evs) = Len(rec) + 2
          /\ IsInit(evs[1], calls[c].promptSid)
          /\ \A i \in 1..Len(rec) : AssistantOf(evs[i + 1], rec[i])
          /\ IsResult(evs[Len(evs)])

\* A response of three parts, the middle one of an unknown type.
C9_Witness ==
  \E c \in Calls :
    /\ IsQuery(c) /\ Finished(c)
    /\ calls[c].resp.parts =
         << TextPart("hi"), ToolPart("image", ""), ToolPart("tool_call", "add") >>
    /\ Len(calls[c].events) = 4

\* C10: the enabled-tools list of the prompt body is mcp__<server>__<tool>
\* for every tool of every server, in server order then tool order,
\* followed by allowedTools as given, nothing removed; the body has no such
\* field when neither input is given (and only when the list is empty).
RECURSIVE ToolCount(_, _)
ToolCount(entries, j) ==
  IF j = 0 THEN 0 ELSE Len(entries[j].tools) + ToolCount(entries, j - 1)

C10_EnabledTools ==
  \A c \in Calls :
    (IsQuery(c) /\ calls[c].prompted)
    => LET o == calls[c].opts
           list == calls[c].body.list
           n == ToolCount(o.servers, Len(o.servers))
       IN /\ Len(list) = n + Len(o.allowedTools)
          /\ \A j \in 1..Len(o.servers) :
               \A t \in 1..Len(o.servers[j].tools) :
                 list[ToolCount(o.servers, j - 1) + t]
                   = "mcp__" \o o.servers[j].key \o "__" \o o.servers[j].tools[t]
          /\ \A k \in 1..Len(o.allowedTools) : list[n + k] = o.allowedTools[k]
          /\ (~o.hasServers /\ ~o.hasAllowed) => ~calls[c].body.has
          /\ ~calls[c].body.has => list = <<>>

\* Two servers and an allow-list that repeats a synthesized identifier.
C10_Witness ==
  \E c \in Calls :
    /\ IsQuery(c) /\ calls[c].prompted
    /\ calls[c].opts.allowedTools = << "mcp__calc__add", "web_search" >>
    /\ calls[c].body.has
    /\ calls[c].body.list =
         << "mcp__fs__read", "mcp__calc__add", "mcp__calc__add", "web_search" >>

====
